---- MODULE Spec2Model ----
(***************************************************************************)
(* EdTechia question service: the Gemini fallback chain (lib/vertexai),    *)
(* the server-side question bank (lib/questionBank) and the               *)
(* POST /api/generate-question route that ties them together.              *)
(*                                                                         *)
(* Node.js runs every handler to its next await without interruption,    *)
(* so one action is one such run: from the arrival of a request or of a    *)
(* backend response up to the next suspension.                             *)
(***************************************************************************)
EXTENDS Integers, Sequences, FiniteSets, Bags, TLC

VARIABLES
    bank,       \* Map<string, BankQuestion[]>: key -> the array the map holds
    refilling,  \* Set<string>: keys being refilled
    tasks,      \* per key, the background refill closures that are suspended
    reqs,       \* POST handlers suspended in their on-demand generation
    now,        \* Date.now()
    nextId,     \* identity of the next BankQuestion object created
    resp,       \* what the last step handed to a caller, if anything
    lastGen,    \* the generateQuestionWithFallback call the last step advanced, if any
    env,        \* the world of one run: what backends may answer, how often
    timer       \* the useExamTimer hook of a page and the intervals of its window

vars == <<bank, refilling, tasks, reqs, now, nextId, resp, lastGen, env, timer>>

-----------------------------------------------------------------------------
(* Policy constants of the bank and the chain                              *)

MIN_BANK == 10
MAX_BANK == 20
MAX_AGE_MS == 4 * 60 * 60 * 1000

MODEL_FALLBACK_CHAIN ==
    <<"gemini-2.5-pro", "gemini-2.0-flash", "gemini-1.5-pro-002", "gemini-1.5-flash-002">>

-----------------------------------------------------------------------------
(* Bounds of the model                                                     *)

MaxItems == 3       \* BankQuestion objects created in a run of Spec
MaxTicks == 2       \* clock advances in a run of Spec
MaxReqs == 1        \* POST handlers suspended at once in a run of Spec
ChainReqs == 2      \* POST handlers suspended at once in a run of SpecChain
DeepItems == 22     \* BankQuestion objects created in a run of SpecDeep
DeepTicks == 1      \* clock advances in a run of SpecDeep
LiveItems == 10     \* BankQuestion objects created in a run of SpecLive
AgeItems == 3       \* BankQuestion objects created in a run of SpecAge
AgeTicks == 3       \* clock advances in a run of SpecAge
PrimeItems == 12    \* BankQuestion objects created in a run of SpecPrime
PrimeTicks == 1     \* clock advances in a run of SpecPrime
PrimeReqs == 1
KeysItems == 2
KeysTicks == 1
StatsItems == 2
StatsTicks == 2
ColonItems == 2
ColonTicks == 2
MaxIntervals == 3
MaxExpiries == 2      \* POST handlers suspended at once in a run of SpecPrime

\* A clock advance of half the maximum age: an item is exactly MAX_AGE_MS
\* old two advances after its creation.
HalfAge == MAX_AGE_MS \div 2

-----------------------------------------------------------------------------
(* JavaScript values as far as parseAndValidateQuestion looks at them      *)

JsString(s) == [t |-> "string", v |-> s]
JsNumber == [t |-> "number", v |-> "7"]
JsUndefined == [t |-> "undefined", v |-> ""]
typeof(x) == x.t

Letters == <<"A", "B", "C", "D">>

\* options_en: typeof, whether it is null, and its members A..D
Options(a, b, c, d) == [t |-> "object", null |-> FALSE, A |-> a, B |-> b, C |-> c, D |-> d]
OptionsNull ==
    [t |-> "object", null |-> TRUE,
     A |-> JsUndefined, B |-> JsUndefined, C |-> JsUndefined, D |-> JsUndefined]
FourOptions == Options(JsString("a"), JsString("b"), JsString("c"), JsString("d"))

\* visual_context: `truthy` is what `!vc` tests
VcAbsent == [truthy |-> FALSE, type |-> JsUndefined, content |-> JsUndefined]
Vc(type, content) == [truthy |-> TRUE, type |-> type, content |-> content]

Question(letter, vc) ==
    [question_en |-> JsString("q"), options_en |-> FourOptions,
     correct_letter |-> letter, explanation_pt |-> JsString("e"),
     visual_context |-> vc]

NoQuestion == Question(JsUndefined, VcAbsent)

\* The text of a candidate: optional code fences around a body that is
\* either not JSON, the JSON null, or a JSON object.
Raw(lead, kind, q, trail) == [lead |-> lead, kind |-> kind, q |-> q, trail |-> trail]

\* What model.generateContent(request) settles with
Answer(raw) == [transport |-> "ok", raw |-> raw]
TransportError == [transport |-> "error", raw |-> Raw("", "garbage", NoQuestion, "")]

GoodQ == Question(JsString("B"), Vc(JsString("mermaid"), JsString("graph TD")))

A_Valid == Answer(Raw("", "object", GoodQ, ""))
A_ValidFenced == Answer(Raw("[fence json]", "object", Question(JsString("A"), VcAbsent), "[fence]"))
A_ValidOddVc == Answer(Raw("", "object", Question(JsString("D"), Vc(JsString("svg"), JsString("x"))), ""))
A_ValidNumContent == Answer(Raw("[fence]", "object", Question(JsString("C"), Vc(JsString("terminal"), JsNumber)), "[fence]"))
A_Garbage == Answer(Raw("", "garbage", NoQuestion, ""))
A_JsonNull == Answer(Raw("", "null", NoQuestion, ""))
A_NoLetter == Answer(Raw("", "object", Question(JsUndefined, VcAbsent), ""))
A_BadLetter == Answer(Raw("", "object", Question(JsString("E"), VcAbsent), ""))
A_NoOptionD ==
    Answer(Raw("", "object",
               [Question(JsString("A"), VcAbsent) EXCEPT
                   !.options_en = Options(JsString("a"), JsString("b"), JsString("c"), JsUndefined)],
               ""))
A_OptionsNull ==
    Answer(Raw("", "object", [Question(JsString("A"), VcAbsent) EXCEPT !.options_en = OptionsNull], ""))

\* Answers offered in a run of Spec (the bank at full depth)
BankAnswers == {A_NoLetter, A_ValidOddVc}
\* Answers offered in a run of SpecChain (the chain and the validation)
ChainAnswers ==
    {TransportError, A_Valid, A_ValidFenced, A_ValidOddVc, A_ValidNumContent,
     A_Garbage, A_JsonNull, A_NoLetter, A_BadLetter, A_NoOptionD, A_OptionsNull}

-----------------------------------------------------------------------------
(* lib/vertexai: parseAndValidateQuestion                                  *)

Thrown(msg) == [ok |-> FALSE, err |-> msg, q |-> NoQuestion]
Returned(q) == [ok |-> TRUE, err |-> "", q |-> q]

\* raw.replace(fences).trim(): the fences go, the body stays
Cleaned(raw) == [kind |-> raw.kind, q |-> raw.q]

HasRequiredFields(q) ==
    /\ typeof(q.question_en) = "string"
    /\ typeof(q.options_en) = "object"
    /\ typeof(q.correct_letter) = "string"
    /\ typeof(q.explanation_pt) = "string"

OptionsAreStrings(opts) ==
    /\ typeof(opts.A) = "string"
    /\ typeof(opts.B) = "string"
    /\ typeof(opts.C) = "string"
    /\ typeof(opts.D) = "string"

LetterIsValid_Any(q) == TRUE

LetterIsValid(q) == \E i \in 1..Len(Letters) : Letters[i] = q.correct_letter.v

VcKinds == {"mermaid", "terminal", "none"}

NormaliseVc_Keep(vc) == vc

NormaliseVc_KeepContent(vc) ==
    IF ~vc.truthy \/ ~(typeof(vc.type) = "string" /\ vc.type.v \in VcKinds)
    THEN Vc(JsString("none"), JsString(""))
    ELSE Vc(vc.type, vc.content)

NormaliseVc(vc) ==
    IF ~vc.truthy \/ ~(typeof(vc.type) = "string" /\ vc.type.v \in VcKinds)
    THEN Vc(JsString("none"), JsString(""))
    ELSE Vc(vc.type, IF typeof(vc.content) = "string" THEN vc.content ELSE JsString(""))

parseAndValidateQuestion(raw) ==
    LET cleaned == Cleaned(raw)
        q == cleaned.q
    IN  IF cleaned.kind = "garbage" THEN Thrown("Gemini returned non-JSON response")
        ELSE IF cleaned.kind = "null" THEN Thrown("TypeError: Cannot read properties of null")
        ELSE IF ~HasRequiredFields(q) THEN Thrown("Gemini JSON is missing required fields")
        ELSE IF q.options_en.null THEN Thrown("TypeError: Cannot read properties of null")
        ELSE IF ~OptionsAreStrings(q.options_en) THEN Thrown("Gemini options_en is missing A/B/C/D keys")
        ELSE IF ~LetterIsValid(q) THEN Thrown("Gemini correct_letter is invalid")
        ELSE Returned([q EXCEPT !.visual_context = NormaliseVc(q.visual_context)])

-----------------------------------------------------------------------------
(* lib/vertexai: generateQuestionWithFallback, one backend response at a   *)
(* time.  A call in progress is the position of its loop in the chain,     *)
(* lastError, and the record of what it invoked and got so far.            *)

NextModel_Skip(idx) == idx + 2

NextModel_Retry(idx) == idx

NextModel(idx) == idx + 1

StartCall ==
    [idx |-> 1, lastError |-> "null",
     invoked |-> <<MODEL_FALLBACK_CHAIN[1]>>, log |-> <<>>]

\* The body of the try block for the model at call.idx
Attempt(answer) ==
    IF answer.transport = "error" THEN Thrown("backend call failed")
    ELSE parseAndValidateQuestion(answer.raw)

AllFailed_NoCause(lastError) == "All models in the fallback chain failed."

AllFailed(lastError) ==
    "All models in the fallback chain failed. Last error: " \o lastError

\* How an answer went, as the two warnings of the log tell it apart
Outcome(answer, a) ==
    IF a.ok THEN "ok" ELSE IF answer.transport = "error" THEN "transport" ELSE "validation"

\* The call after `answer` arrived for the model it is waiting on:
\* settled with a result, settled with the aggregate error, or waiting on
\* the next model.
ChainStep(call, answer) ==
    LET a == Attempt(answer)
        log == Append(call.log, Outcome(answer, a))
    IN  IF a.ok
        THEN [settled |-> TRUE, ok |-> TRUE, question |-> a.q,
              modelUsed |-> MODEL_FALLBACK_CHAIN[call.idx], error |-> "",
              call |-> [call EXCEPT !.log = log]]
        ELSE IF NextModel(call.idx) \in 1..Len(MODEL_FALLBACK_CHAIN)
        THEN [settled |-> FALSE, ok |-> FALSE, question |-> NoQuestion,
              modelUsed |-> "", error |-> "",
              call |-> [idx |-> NextModel(call.idx), lastError |-> a.err,
                        invoked |-> Append(call.invoked, MODEL_FALLBACK_CHAIN[NextModel(call.idx)]),
                        log |-> log]]
        ELSE [settled |-> TRUE, ok |-> FALSE, question |-> NoQuestion,
              modelUsed |-> "", error |-> AllFailed(a.err),
              call |-> [call EXCEPT !.lastError = a.err, !.log = log]]

\* What is seen of a call when an answer has advanced it
Advanced(step, answer) ==
    [answer |-> answer, settled |-> step.settled, ok |-> step.ok,
     question |-> step.question, modelUsed |-> step.modelUsed, error |-> step.error,
     lastError |-> step.call.lastError, invoked |-> step.call.invoked, log |-> step.call.log]

NoGen ==
    [answer |-> TransportError, settled |-> FALSE, ok |-> FALSE,
     question |-> NoQuestion, modelUsed |-> "", error |-> "",
     lastError |-> "null", invoked |-> <<>>, log |-> <<>>]

-----------------------------------------------------------------------------
(* lib/questionBank.  The bank operators work on the module state          *)
(* m = [bank, refilling, tasks].  A refill closure holds a reference `q`   *)
(* to the array it read with getQueue before it suspended; pruneStale      *)
(* replaces the array of a key by a new one, so the closure records        *)
(* whether its array is still the one the map holds (live) or an array     *)
(* the map has dropped (then q is that array).                             *)

\* PoolKeys addressed in a run
K1 == <<"clf", "iam", "easy">>
K2 == <<"clf", "iam", "hard">>
\* Two PoolKeys whose first two components hold the separator of bankKey
K3 == <<"a:b", "c", "easy">>
K4 == <<"a", "b:c", "easy">>

bankKey(examId, topicId, difficulty) == examId \o ":" \o topicId \o ":" \o difficulty

KeyOf(pk) == bankKey(pk[1], pk[2], pk[3])

BankQuestion(id, question, modelUsed, generatedAt) ==
    [id |-> id, question |-> question, modelUsed |-> modelUsed, generatedAt |-> generatedAt]

\* null, where a BankQuestion is expected
NoItem == BankQuestion(0, NoQuestion, "", 0)

\* getQueue(key): the map afterwards; the queue is the map's value at key
getQueue(b, key) == IF key \in DOMAIN b THEN b ELSE b @@ (key :> <<>>)

IsFresh_Always(q, t) == TRUE

IsFresh(q, t) == (t - q.generatedAt) < MAX_AGE_MS

\* Closures of `key` that hold the array `queue`, once the map drops it
Detach(ts, key, queue) ==
    [ts EXCEPT ![key] =
        [i \in DOMAIN @ |-> IF @[i].live THEN [@[i] EXCEPT !.live = FALSE, !.q = queue] ELSE @[i]]]

pruneStale_All(m, key, t) ==
    LET b == getQueue(m.bank, key)
        queue == b[key]
        fresh == SelectSeq(queue, LAMBDA q : IsFresh(q, t))
    IN  IF Len(fresh) # Len(queue)
        THEN [m EXCEPT !.bank = [b EXCEPT ![key] = <<>>],
                       !.tasks = Detach(m.tasks, key, queue)]
        ELSE [m EXCEPT !.bank = b]

pruneStale(m, key, t) ==
    LET b == getQueue(m.bank, key)
        queue == b[key]
        fresh == SelectSeq(queue, LAMBDA q : IsFresh(q, t))
    IN  IF Len(fresh) # Len(queue)
        THEN [m EXCEPT !.bank = [b EXCEPT ![key] = fresh],
                       !.tasks = Detach(m.tasks, key, queue)]
        ELSE [m EXCEPT !.bank = b]

popFromBank_Newest(m, key, t) ==
    LET m1 == pruneStale(m, key, t)
        queue == m1.bank[key]
    IN  IF Len(queue) = 0
        THEN [m |-> m1, item |-> NoItem]
        ELSE [m |-> [m1 EXCEPT !.bank[key] = SubSeq(queue, 1, Len(queue) - 1)],
              item |-> queue[Len(queue)]]

popFromBank_Peek(m, key, t) ==
    LET m1 == pruneStale(m, key, t)
        queue == m1.bank[key]
    IN  IF Len(queue) = 0
        THEN [m |-> m1, item |-> NoItem]
        ELSE [m |-> m1, item |-> Head(queue)]

popFromBank_Marks(m, key, t) ==
    LET m1 == pruneStale(m, key, t)
        queue == m1.bank[key]
    IN  IF Len(queue) = 0
        THEN [m |-> [m1 EXCEPT !.refilling = @ \cup {key}], item |-> NoItem]
        ELSE [m |-> [m1 EXCEPT !.bank[key] = Tail(queue)], item |-> Head(queue)]

\* popFromBank: the module state afterwards and the value returned
popFromBank(m, key, t) ==
    LET m1 == pruneStale(m, key, t)
        queue == m1.bank[key]
    IN  IF Len(queue) = 0
        THEN [m |-> m1, item |-> NoItem]
        ELSE [m |-> [m1 EXCEPT !.bank[key] = Tail(queue)], item |-> Head(queue)]

bankDepth(m, key, t) ==
    LET m1 == pruneStale(m, key, t)
    IN  [m |-> m1, depth |-> Len(m1.bank[key])]

RefillFinally_Leak(m, key) == [m EXCEPT !.bank = getQueue(@, key)]

\* The finally block of the refill closure
RefillFinally(m, key) ==
    [m EXCEPT !.refilling = @ \ {key}, !.bank = getQueue(@, key)]

RefillNeeded_Unguarded(len, marked) == len < MIN_BANK

RefillNeeded_Eager(len, marked) == ~marked

\* May a refill that starts at depth `len` with `key` marked or not go on?
RefillNeeded(len, marked) == len < MIN_BANK /\ ~marked

RefillLoop_Runaway(m, key, task) ==
    [m EXCEPT !.bank = getQueue(@, key),
              !.tasks[key] = Append(@, [task EXCEPT !.call = StartCall,
                                                    !.live = TRUE, !.q = <<>>])]

\* The head of the while loop of the refill closure `task`, which is not
\* among the suspended ones: it suspends in a new generation call, or
\* leaves the loop and runs the finally block.
RefillLoop(m, key, task) ==
    IF task.generated < task.needed /\ Len(getQueue(m.bank, key)[key]) < MAX_BANK
    THEN [m EXCEPT !.bank = getQueue(@, key),
                   !.tasks[key] = Append(@, [task EXCEPT !.call = StartCall,
                                                         !.live = TRUE, !.q = <<>>])]
    ELSE RefillFinally(m, key)

NewTask_Half(needed) ==
    [needed |-> (needed + 1) \div 2, generated |-> 0, call |-> StartCall, live |-> TRUE,
     q |-> <<>>]

NewTask_Over(needed) ==
    [needed |-> needed + 1, generated |-> 0, call |-> StartCall, live |-> TRUE, q |-> <<>>]

NewTask(needed) ==
    [needed |-> needed, generated |-> 0, call |-> StartCall, live |-> TRUE, q |-> <<>>]

triggerRefillIfNeeded_Eager(m, key, t, throws) ==
    LET m1 == [pruneStale(m, key, t) EXCEPT !.built = @ + 1]
        queue == m1.bank[key]
    IN  IF ~RefillNeeded(Len(queue), key \in m1.refilling) THEN m1
        ELSE LET needed == MIN_BANK - Len(queue)
                 m2 == [m1 EXCEPT !.refilling = @ \cup {key}]
             IN  IF throws THEN RefillFinally(m2, key)
                 ELSE RefillLoop(m2, key, NewTask(needed))

triggerRefillIfNeeded_Global(m, key, t, throws) ==
    LET m1 == pruneStale(m, key, t)
        queue == m1.bank[key]
    IN  IF ~RefillNeeded(Len(queue), m1.refilling # {}) THEN m1
        ELSE LET needed == MIN_BANK - Len(queue)
                 m2 == [m1 EXCEPT !.refilling = @ \cup {key}, !.built = @ + 1]
             IN  IF throws THEN RefillFinally(m2, key)
                 ELSE RefillLoop(m2, key, NewTask(needed))

\* triggerRefillIfNeeded, up to the first suspension of the closure it
\* starts; `throws`: buildPrompts() throws.
triggerRefillIfNeeded(m, key, t, throws) ==
    LET m1 == pruneStale(m, key, t)
        queue == m1.bank[key]
    IN  IF ~RefillNeeded(Len(queue), key \in m1.refilling) THEN m1
        ELSE LET needed == MIN_BANK - Len(queue)
                 m2 == [m1 EXCEPT !.refilling = @ \cup {key}, !.built = @ + 1]
             IN  IF throws THEN RefillFinally(m2, key)
                 ELSE RefillLoop(m2, key, NewTask(needed))

\* q.push(item) in the closure `task`
RefillPush(m, key, task, item) ==
    IF task.live THEN [m EXCEPT !.bank[key] = Append(@, item)] ELSE m

RemoveAt(s, i) == SubSeq(s, 1, i - 1) \o SubSeq(s, i + 1, Len(s))

RefillResume_Retry(m, key, i, step, t, id) ==
    LET task == m.tasks[key][i]
        m1 == [m EXCEPT !.tasks[key] = RemoveAt(@, i)]
    IN  IF step.ok
        THEN RefillLoop(RefillPush(m1, key, task,
                                   BankQuestion(id, step.question, step.modelUsed, t)),
                        key, [task EXCEPT !.generated = @ + 1])
        ELSE RefillLoop(m1, key, task)

\* The closure tasks[key][i] resumes with the settled generation `step`
RefillResume(m, key, i, step, t, id) ==
    LET task == m.tasks[key][i]
        m1 == [m EXCEPT !.tasks[key] = RemoveAt(@, i)]
    IN  IF step.ok
        THEN RefillLoop(RefillPush(m1, key, task,
                                   BankQuestion(id, step.question, step.modelUsed, t)),
                        key, [task EXCEPT !.generated = @ + 1])
        ELSE RefillFinally(m1, key)

getBankStats(b) == [key \in DOMAIN b |-> Len(b[key])]

\* The (topicId, difficulty) pairs of warmBankForExam in the order of its
\* two loops
WarmPairs(topics, difficulties) ==
    [i \in 1..(Len(topics) * Len(difficulties)) |->
        <<topics[((i - 1) \div Len(difficulties)) + 1],
          difficulties[((i - 1) % Len(difficulties)) + 1]>>]

RECURSIVE WarmLoop(_, _, _, _, _)
\* The calls of triggerRefillIfNeeded that warmBankForExam makes for `pairs`
WarmLoop(m, examId, pairs, t, throws) ==
    IF pairs = <<>> THEN m
    ELSE WarmLoop(triggerRefillIfNeeded(m, bankKey(examId, Head(pairs)[1], Head(pairs)[2]),
                                        t, throws),
                  examId, Tail(pairs), t, throws)

warmBankForExam(m, examId, topics, difficulties, t, throws) ==
    WarmLoop(m, examId, WarmPairs(topics, difficulties), t, throws)

-----------------------------------------------------------------------------
(* hooks/useExamTimer.  intervalRef and the interval ids are numbers, 0    *)
(* for null; `active` are the intervals the window has scheduled and not   *)
(* cleared; `expiries` counts the calls of onExpire since the last start.  *)

TOTAL == 300

TimerInit ==
    [secondsLeft |-> TOTAL, state |-> "idle", paused |-> FALSE, intervalRef |-> 0,
     secondsRef |-> TOTAL, active |-> {}, nextInterval |-> 1, expiries |-> 0,
     mounted |-> TRUE]

\* clear(): clearInterval if intervalRef.current, then intervalRef.current = null
clear(tm) == [tm EXCEPT !.active = @ \ {tm.intervalRef}, !.intervalRef = 0]

\* intervalRef.current = setInterval(callback, 1000)
SetIntervalRef(tm) ==
    [tm EXCEPT !.intervalRef = tm.nextInterval, !.active = @ \cup {tm.nextInterval},
               !.nextInterval = @ + 1]

start(tm) ==
    SetIntervalRef([clear(tm) EXCEPT !.secondsLeft = TOTAL, !.secondsRef = TOTAL,
                                     !.state = "running", !.paused = FALSE,
                                     !.expiries = 0])

reset(tm) ==
    [clear(tm) EXCEPT !.secondsLeft = TOTAL, !.secondsRef = TOTAL, !.state = "idle",
                      !.paused = FALSE]

pause(tm) == IF tm.intervalRef # 0 THEN [clear(tm) EXCEPT !.paused = TRUE] ELSE tm

resume(tm) ==
    IF tm.secondsRef <= 0 THEN tm ELSE SetIntervalRef([tm EXCEPT !.paused = FALSE])

\* The callback that start and resume hand to setInterval
IntervalCallback(tm) ==
    LET tm1 == [tm EXCEPT !.secondsRef = @ - 1]
    IN  IF tm1.secondsRef <= 0
        THEN [clear(tm1) EXCEPT !.state = "expired", !.secondsLeft = 0, !.expiries = @ + 1]
        ELSE [tm1 EXCEPT !.secondsLeft = tm1.secondsRef]

-----------------------------------------------------------------------------
(* State machine                                                           *)

\* The module's state at the start of a step; built: the calls of
\* buildPrompts() that refill closures have made in the step
M == [bank |-> bank, refilling |-> refilling, tasks |-> tasks, built |-> 0]

SetM(m) ==
    /\ bank' = m.bank
    /\ refilling' = m.refilling
    /\ tasks' = m.tasks

Resp(op, key, status, fromBank, item, depth) ==
    [op |-> op, key |-> key, status |-> status, from_bank |-> fromBank,
     item |-> item, depth |-> depth, built |-> 0, stats |-> <<>>]

\* The response r of GET /api/bank-status with body {bank: s}
Stats(r, s) == [r EXCEPT !.stats = s]

\* The response r of a step in which buildPrompts() was called n times
Built(r, n) == [r EXCEPT !.built = n]

NoResp == Resp("none", "", 0, FALSE, NoItem, 0)

\* A run's world: the answers backends may give, the positions of the chain
\* whose backend may answer well, the BankQuestion objects the run may
\* create, the clock advances, the handlers suspended at once, the PoolKeys
\* addressed, and whether a prompt factory may throw.  The clock advances
\* by tickMs at a time, maxTicks times.
World(answers, healthy, maxItems, tickMs, maxTicks, maxReqs, keys, throws) ==
    [answers |-> answers, healthy |-> healthy, maxItems |-> maxItems, tickMs |-> tickMs,
     maxTicks |-> maxTicks, maxReqs |-> maxReqs, keys |-> keys, throws |-> throws]

InitWith(e) ==
    /\ env = e
    /\ bank = <<>>
    /\ refilling = {}
    /\ tasks = [key \in {KeyOf(pk) : pk \in e.keys} |-> <<>>]
    /\ reqs = EmptyBag
    /\ now = 0
    /\ nextId = 1
    /\ resp = NoResp
    /\ lastGen = NoGen
    /\ timer = TimerInit

\* Time passes
Tick ==
    /\ now < env.maxTicks * env.tickMs
    /\ now' = now + env.tickMs
    /\ resp' = NoResp
    /\ lastGen' = NoGen
    /\ UNCHANGED <<bank, refilling, tasks, reqs, nextId, env, timer>>

\* A backend may answer anything the run offers, but well only if it is a
\* healthy one.
Healthy(call, answer) ==
    Attempt(answer).ok => call.idx \in env.healthy

\* Where a good answer becomes a BankQuestion, the run must not have created
\* its share of them yet.
Offered(call, answer) ==
    /\ Healthy(call, answer)
    /\ Attempt(answer).ok => nextId <= env.maxItems

Request(route, pk) == [route |-> route, pk |-> pk, call |-> StartCall]

ServeArrives_Miss(pk) ==
    /\ BagCardinality(reqs) < env.maxReqs
    /\ SetM(pruneStale(M, KeyOf(pk), now))
    /\ reqs' = reqs (+) SetToBag({Request("bank", pk)})
    /\ resp' = NoResp
    /\ lastGen' = NoGen
    /\ UNCHANGED <<now, nextId, env, timer>>

ServeArrives_NoRefill(pk) ==
    LET key == KeyOf(pk)
        pop == popFromBank(M, key, now)
    IN  IF pop.item # NoItem
        THEN /\ SetM(pop.m)
             /\ resp' = Resp("serve", key, 200, TRUE, pop.item, 0)
             /\ lastGen' = NoGen
             /\ UNCHANGED <<reqs, now, nextId, env, timer>>
        ELSE /\ BagCardinality(reqs) < env.maxReqs
             /\ SetM(pop.m)
             /\ reqs' = reqs (+) SetToBag({Request("bank", pk)})
             /\ resp' = NoResp
             /\ lastGen' = NoGen
             /\ UNCHANGED <<now, nextId, env, timer>>

\* POST /api/generate-question (with the bank) arrives and runs to its
\* response (bank hit) or to its first suspension (bank miss).
ServeArrives(pk) ==
    LET key == KeyOf(pk)
        pop == popFromBank(M, key, now)
        hit == triggerRefillIfNeeded(pop.m, key, now, FALSE)
    IN  IF pop.item # NoItem
        THEN /\ SetM(hit)
             /\ resp' = Built(Resp("serve", key, 200, TRUE, pop.item, 0), hit.built)
             /\ lastGen' = NoGen
             /\ UNCHANGED <<reqs, now, nextId, env, timer>>
        ELSE /\ BagCardinality(reqs) < env.maxReqs
             /\ SetM(pop.m)
             /\ reqs' = reqs (+) SetToBag({Request("bank", pk)})
             /\ resp' = NoResp
             /\ lastGen' = NoGen
             /\ UNCHANGED <<now, nextId, env, timer>>

ServeAnswer_Heals(r, answer) ==
    LET key == KeyOf(r.pk)
        step == ChainStep(r.call, answer)
        rest == reqs (-) SetToBag({r})
        miss == triggerRefillIfNeeded(M, key, now, FALSE)
    IN  /\ BagIn(r, reqs)
        /\ r.route = "bank"
        /\ Offered(r.call, answer)
        /\ lastGen' = Advanced(step, answer)
        /\ IF ~step.settled
           THEN /\ reqs' = rest (+) SetToBag({[r EXCEPT !.call = step.call]})
                /\ resp' = NoResp
                /\ UNCHANGED <<bank, refilling, tasks, now, nextId, env, timer>>
           ELSE /\ reqs' = rest
                /\ IF step.ok
                   THEN /\ SetM(miss)
                        /\ resp' = Built(Resp("serve", key, 200, FALSE,
                                              BankQuestion(nextId, step.question,
                                                           step.modelUsed, now), 0),
                                         miss.built)
                        /\ nextId' = nextId + 1
                        /\ UNCHANGED <<now, env, timer>>
                   ELSE /\ SetM(miss)
                        /\ resp' = Resp("serve", key, 502, FALSE, NoItem, 0)
                        /\ UNCHANGED <<now, nextId, env, timer>>

\* A backend answers the on-demand generation of a suspended handler of
\* that route.
ServeAnswer(r, answer) ==
    LET key == KeyOf(r.pk)
        step == ChainStep(r.call, answer)
        rest == reqs (-) SetToBag({r})
        miss == triggerRefillIfNeeded(M, key, now, FALSE)
    IN  /\ BagIn(r, reqs)
        /\ r.route = "bank"
        /\ Offered(r.call, answer)
        /\ lastGen' = Advanced(step, answer)
        /\ IF ~step.settled
           THEN /\ reqs' = rest (+) SetToBag({[r EXCEPT !.call = step.call]})
                /\ resp' = NoResp
                /\ UNCHANGED <<bank, refilling, tasks, now, nextId, env, timer>>
           ELSE /\ reqs' = rest
                /\ IF step.ok
                   THEN /\ SetM(miss)
                        /\ resp' = Built(Resp("serve", key, 200, FALSE,
                                              BankQuestion(nextId, step.question,
                                                           step.modelUsed, now), 0),
                                         miss.built)
                        /\ nextId' = nextId + 1
                        /\ UNCHANGED <<now, env, timer>>
                   ELSE /\ resp' = Resp("serve", key, 502, FALSE, NoItem, 0)
                        /\ UNCHANGED <<bank, refilling, tasks, now, nextId, env, timer>>

\* A backend answers the generation call of a suspended refill closure
RefillAnswer(key, i, answer) ==
    LET task == tasks[key][i]
        step == ChainStep(task.call, answer)
    IN  /\ i \in DOMAIN tasks[key]
        /\ Offered(task.call, answer)
        /\ IF ~step.settled
           THEN /\ tasks' = [tasks EXCEPT ![key][i].call = step.call]
                /\ UNCHANGED <<bank, refilling, nextId>>
           ELSE /\ SetM(RefillResume(M, key, i, step, now, nextId))
                /\ nextId' = IF step.ok THEN nextId + 1 ELSE nextId
        /\ lastGen' = Advanced(step, answer)
        /\ resp' = NoResp
        /\ UNCHANGED <<reqs, now, env, timer>>

\* POST /api/generate-question without the bank: the handler suspends in
\* its generation call and answers with what the call settles with.
PlainArrives(pk) ==
    /\ BagCardinality(reqs) < env.maxReqs
    /\ reqs' = reqs (+) SetToBag({Request("plain", pk)})
    /\ resp' = NoResp
    /\ lastGen' = NoGen
    /\ UNCHANGED <<bank, refilling, tasks, now, nextId, env, timer>>

PlainAnswer(r, answer) ==
    LET step == ChainStep(r.call, answer)
        rest == reqs (-) SetToBag({r})
    IN  /\ BagIn(r, reqs)
        /\ r.route = "plain"
        /\ Healthy(r.call, answer)
        /\ lastGen' = Advanced(step, answer)
        /\ IF ~step.settled
           THEN /\ reqs' = rest (+) SetToBag({[r EXCEPT !.call = step.call]})
                /\ resp' = NoResp
           ELSE /\ reqs' = rest
                /\ resp' = Resp("generate", KeyOf(r.pk), IF step.ok THEN 200 ELSE 502,
                                FALSE, NoItem, 0)
        /\ UNCHANGED <<bank, refilling, tasks, now, nextId, env, timer>>

\* The exported bank functions, called on their own
PopFromBank(pk) ==
    LET pop == popFromBank(M, KeyOf(pk), now)
    IN  /\ SetM(pop.m)
        /\ resp' = Resp("pop", KeyOf(pk), 0, pop.item # NoItem, pop.item, 0)
        /\ lastGen' = NoGen
        /\ UNCHANGED <<reqs, now, nextId, env, timer>>

BankDepth(pk) ==
    LET d == bankDepth(M, KeyOf(pk), now)
    IN  /\ SetM(d.m)
        /\ resp' = Resp("depth", KeyOf(pk), 0, FALSE, NoItem, d.depth)
        /\ lastGen' = NoGen
        /\ UNCHANGED <<reqs, now, nextId, env, timer>>

TriggerRefillIfNeeded(pk, throws) ==
    /\ SetM(triggerRefillIfNeeded(M, KeyOf(pk), now, throws))
    /\ resp' = Built(Resp("trigger", KeyOf(pk), 0, FALSE, NoItem, 0),
                     triggerRefillIfNeeded(M, KeyOf(pk), now, throws).built)
    /\ lastGen' = NoGen
    /\ UNCHANGED <<reqs, now, nextId, env, timer>>

WarmBankForExam(examId, topics, difficulties, throws) ==
    /\ SetM(warmBankForExam(M, examId, topics, difficulties, now, throws))
    /\ resp' = Built(Resp("warm", "", 0, FALSE, NoItem, 0),
                     warmBankForExam(M, examId, topics, difficulties, now, throws).built)
    /\ lastGen' = NoGen
    /\ UNCHANGED <<reqs, now, nextId, env, timer>>

\* GET /api/bank-status: 401 without a session, else the stats of all keys
BankStatus(session) ==
    /\ resp' = IF ~session THEN Resp("stats", "", 401, FALSE, NoItem, 0)
                ELSE Stats(Resp("stats", "", 200, FALSE, NoItem, 0), getBankStats(bank))
    /\ lastGen' = NoGen
    /\ UNCHANGED <<bank, refilling, tasks, reqs, now, nextId, env, timer>>

\* The page calls a function of the hook
TimerCall(f) ==
    /\ timer.mounted
    /\ \/ f = "start" /\ timer.nextInterval <= MaxIntervals /\ timer' = start(timer)
       \/ f = "reset" /\ timer' = reset(timer)
       \/ f = "pause" /\ timer' = pause(timer)
       \/ f = "resume" /\ timer.nextInterval <= MaxIntervals /\ timer' = resume(timer)
    /\ UNCHANGED <<bank, refilling, tasks, reqs, now, nextId, resp, lastGen, env>>

\* A second passes for the interval `id` of the window
TimerFires(id) ==
    /\ id \in timer.active
    /\ timer.expiries < MaxExpiries
    /\ timer' = IntervalCallback(timer)
    /\ UNCHANGED <<bank, refilling, tasks, reqs, now, nextId, resp, lastGen, env>>

\* The page goes away: the cleanup of the hook's effect runs
TimerUnmount ==
    /\ timer.mounted
    /\ timer' = [clear(timer) EXCEPT !.mounted = FALSE]
    /\ UNCHANGED <<bank, refilling, tasks, reqs, now, nextId, resp, lastGen, env>>

-----------------------------------------------------------------------------
(* Specifications                                                          *)

\* The bank and its route: every operation on one key, time, answers that
\* fail validation, fallback backends that are down, a prompt factory that
\* may throw.
Init ==
    InitWith(World(BankAnswers, {1}, MaxItems, HalfAge, MaxTicks, MaxReqs, {K1}, BOOLEAN))

Next ==
    \/ Tick
    \/ \E pk \in env.keys : ServeArrives(pk)
    \/ \E r \in BagToSet(reqs) : \E answer \in env.answers : ServeAnswer(r, answer)
    \/ \E key \in DOMAIN tasks : \E i \in DOMAIN tasks[key] :
          \E answer \in env.answers : RefillAnswer(key, i, answer)
    \/ \E pk \in env.keys : PopFromBank(pk)
    \/ \E pk \in env.keys : BankDepth(pk)
    \/ \E pk \in env.keys : \E throws \in env.throws : TriggerRefillIfNeeded(pk, throws)

Spec == Init /\ [][Next]_vars

\* The chain on its own: the route without the bank, every kind of answer.
InitChain ==
    InitWith(World(ChainAnswers, 1..Len(MODEL_FALLBACK_CHAIN), 0, HalfAge, 0, ChainReqs,
                   {K1}, {FALSE}))

NextChain ==
    \/ \E pk \in env.keys : PlainArrives(pk)
    \/ \E r \in BagToSet(reqs) : \E answer \in env.answers : PlainAnswer(r, answer)

SpecChain == InitChain /\ [][NextChain]_vars

\* The bank at full depth: the bank's own functions on one key, backends
\* that answer well, a clock that advances by the maximum age, a prompt
\* factory that may throw.
InitDeep ==
    InitWith(World({A_Valid}, 1..Len(MODEL_FALLBACK_CHAIN), DeepItems, MAX_AGE_MS, DeepTicks,
                   0, {K1}, BOOLEAN))

NextDeep ==
    \/ Tick
    \/ \E key \in DOMAIN tasks : \E i \in DOMAIN tasks[key] :
          \E answer \in env.answers : RefillAnswer(key, i, answer)
    \/ \E pk \in env.keys : PopFromBank(pk)
    \/ \E pk \in env.keys : \E throws \in env.throws : TriggerRefillIfNeeded(pk, throws)

SpecDeep == InitDeep /\ [][NextDeep]_vars

\* Refill rounds of every outcome, where every generation call of a refill
\* closure returns: the backend's promise settles, and the event loop then
\* resumes the closure.  Answers may fail validation, the prompt factory may
\* throw, and a round may generate all the questions it needs.
InitLive ==
    InitWith(World(BankAnswers, {1}, LiveItems, HalfAge, 0, 0, {K1}, BOOLEAN))

NextLive ==
    \/ \E key \in DOMAIN tasks : \E i \in DOMAIN tasks[key] :
          \E answer \in env.answers : RefillAnswer(key, i, answer)
    \/ \E pk \in env.keys : PopFromBank(pk)
    \/ \E pk \in env.keys : \E throws \in env.throws : TriggerRefillIfNeeded(pk, throws)

RefillAnswers ==
    \E key \in DOMAIN tasks : \E i \in DOMAIN tasks[key] :
        \E answer \in env.answers : RefillAnswer(key, i, answer)

SpecLive == InitLive /\ [][NextLive]_vars /\ WF_vars(RefillAnswers)

\* The bank's own functions while questions age: a clock that passes the
\* maximum age in two advances and goes on, backends that answer well.
InitAge ==
    InitWith(World({A_Valid}, {1}, AgeItems, HalfAge, AgeTicks, 0, {K1}, {FALSE}))

NextAge ==
    \/ Tick
    \/ \E key \in DOMAIN tasks : \E i \in DOMAIN tasks[key] :
          \E answer \in env.answers : RefillAnswer(key, i, answer)
    \/ \E pk \in env.keys : PopFromBank(pk)
    \/ \E pk \in env.keys : BankDepth(pk)
    \/ \E pk \in env.keys : \E throws \in env.throws : TriggerRefillIfNeeded(pk, throws)

SpecAge == InitAge /\ [][NextAge]_vars

\* The route on a new key with backends that always answer well: requests,
\* the refills they start and bankDepth, while no question reaches the
\* maximum age.
InitPrime ==
    InitWith(World({A_Valid}, {1}, PrimeItems, HalfAge, PrimeTicks, PrimeReqs, {K1}, {FALSE}))

NextPrime ==
    \/ Tick
    \/ \E pk \in env.keys : ServeArrives(pk)
    \/ \E r \in BagToSet(reqs) : \E answer \in env.answers : ServeAnswer(r, answer)
    \/ \E key \in DOMAIN tasks : \E i \in DOMAIN tasks[key] :
          \E answer \in env.answers : RefillAnswer(key, i, answer)
    \/ \E pk \in env.keys : BankDepth(pk)

SpecPrime == InitPrime /\ [][NextPrime]_vars

\* Two keys of one exam: the bank's own functions and warmBankForExam,
\* answers that fail validation, a clock that advances by the maximum age.
InitKeys ==
    InitWith(World(BankAnswers, {1}, KeysItems, MAX_AGE_MS, KeysTicks, 0, {K1, K2}, {FALSE}))

NextKeys ==
    \/ Tick
    \/ \E key \in DOMAIN tasks : \E i \in DOMAIN tasks[key] :
          \E answer \in env.answers : RefillAnswer(key, i, answer)
    \/ \E pk \in env.keys : PopFromBank(pk)
    \/ \E pk \in env.keys : \E throws \in env.throws : TriggerRefillIfNeeded(pk, throws)
    \/ \E throws \in env.throws : WarmBankForExam("clf", <<"iam">>, <<"easy", "hard">>, throws)

SpecKeys == InitKeys /\ [][NextKeys]_vars

\* The admin endpoint beside the bank's own functions on two keys, while
\* questions age.
InitStats ==
    InitWith(World({A_Valid}, {1}, StatsItems, HalfAge, StatsTicks, 0, {K1, K2}, {FALSE}))

NextStats ==
    \/ Tick
    \/ \E key \in DOMAIN tasks : \E i \in DOMAIN tasks[key] :
          \E answer \in env.answers : RefillAnswer(key, i, answer)
    \/ \E pk \in env.keys : BankDepth(pk)
    \/ \E pk \in env.keys : \E throws \in env.throws : TriggerRefillIfNeeded(pk, throws)
    \/ \E session \in BOOLEAN : BankStatus(session)

SpecStats == InitStats /\ [][NextStats]_vars

\* The bank's own functions called with identifiers that hold a colon
InitColon ==
    InitWith(World({A_Valid}, {1}, ColonItems, HalfAge, ColonTicks, 0, {K1, K3, K4}, {FALSE}))

NextColon ==
    \/ Tick
    \/ \E key \in DOMAIN tasks : \E i \in DOMAIN tasks[key] :
          \E answer \in env.answers : RefillAnswer(key, i, answer)
    \/ \E pk \in env.keys : PopFromBank(pk)
    \/ \E pk \in env.keys : \E throws \in env.throws : TriggerRefillIfNeeded(pk, throws)

SpecColon == InitColon /\ [][NextColon]_vars

\* The exam timer of one page: calls of its four functions in any order,
\* the seconds that pass, and the page going away.
InitTimer ==
    InitWith(World({A_Valid}, {1}, 0, HalfAge, 0, 0, {K1}, {FALSE}))

NextTimer ==
    \/ \E f \in {"start", "reset", "pause", "resume"} : TimerCall(f)
    \/ \E id \in timer.active : TimerFires(id)
    \/ TimerUnmount

SpecTimer == InitTimer /\ [][NextTimer]_vars

-----------------------------------------------------------------------------
(* Properties                                                              *)

K1Key == KeyOf(K1)

QueueOf(b, key) == IF key \in DOMAIN b THEN b[key] ELSE <<>>

ChainPrefix(n) == SubSeq(MODEL_FALLBACK_CHAIN, 1, n)

\* The generation calls in progress
CallsInFlight ==
    {r.call : r \in BagToSet(reqs)} \cup
    UNION {{tasks[key][i].call : i \in DOMAIN tasks[key]} : key \in DOMAIN tasks}

\* C1 -- Single-flight: in every reachable state, whatever the interleaving
\* of triggerRefillIfNeeded, popFromBank, bankDepth, requests, clock advances
\* and backend answers, a key has at most one refill closure in progress; a
\* triggerRefillIfNeeded call made while a refill of its key is in progress
\* starts no second one.
C1_SingleFlight == \A key \in DOMAIN tasks : Len(tasks[key]) <= 1

\* A triggerRefillIfNeeded call returned while the refill started by an
\* earlier call had already pushed a question and was still in progress.
C1_Witness ==
    /\ resp.op = "trigger"
    /\ Len(tasks[resp.key]) = 1
    /\ tasks[resp.key][1].generated >= 1

\* C2 -- Bounded depth: in every reachable state every queue of the bank has
\* between 0 and MAX_BANK (20) questions, after any number of refill rounds
\* interleaved with pops and pruning.
C2_BoundedDepth == \A key \in DOMAIN bank : Len(bank[key]) \in 0..MAX_BANK

\* The queue is back at MIN_BANK after at least two full rounds.
C2_Witness ==
    /\ Len(QueueOf(bank, K1Key)) = MIN_BANK
    /\ nextId > 2 * MIN_BANK
    /\ refilling = {}

\* C3 -- RefillGuard: in every reachable state a key is in `refilling` if
\* and only if a refill closure for it was started and has not finished.
C3_RefillGuard ==
    /\ refilling \subseteq DOMAIN tasks
    /\ \A key \in DOMAIN tasks : (key \in refilling) <=> (tasks[key] # <<>>)

\* A second round for the key is in progress, after a first one that pushed
\* questions has finished and released the key.
C3_Witness ==
    /\ K1Key \in refilling
    /\ tasks[K1Key][1].generated = 0
    /\ Len(QueueOf(bank, K1Key)) >= 1

\* The fresh questions of a key's queue at time t, in their order
C10_Fresh(b, key, t) == SelectSeq(QueueOf(b, key), LAMBDA q : (t - q.generatedAt) < MAX_AGE_MS)

\* C4 -- Guard release: a key that is in the in-flight set is eventually
\* out of it, whatever the round's outcome (all needed questions generated,
\* some of them, a generation failure, a prompt factory that throws), given
\* that every generation call returns; and whenever the key is out of the
\* set and its queue holds fewer than MIN_BANK fresh questions, a call of
\* triggerRefillIfNeeded launches a refill for it.
C4_GuardRelease ==
    /\ (K1Key \in refilling) ~> (K1Key \notin refilling)
    /\ []((K1Key \notin refilling /\ Len(C10_Fresh(bank, K1Key, now)) < MIN_BANK) =>
              ENABLED (TriggerRefillIfNeeded(K1, FALSE) /\ K1Key \in refilling'))

\* A refill round has just ended on a failed generation after it had added
\* to the queue, and the key is out of the in-flight set.
C4_Witness ==
    /\ lastGen.settled
    /\ ~lastGen.ok
    /\ resp = NoResp
    /\ K1Key \notin refilling
    /\ tasks[K1Key] = <<>>
    /\ Len(QueueOf(bank, K1Key)) >= 1

\* C5 -- Chain ordering: generateQuestionWithFallback invokes the models in
\* the order of MODEL_FALLBACK_CHAIN and returns the question of the first
\* model whose answer validates, tagged with that model; a call that has
\* had a validating answer invokes no further model.
C5_ChainOrdering ==
    /\ lastGen.ok =>
          LET n == Len(lastGen.log)
          IN  /\ lastGen.settled
              /\ lastGen.invoked = ChainPrefix(n)
              /\ lastGen.log[n] = "ok"
              /\ \A i \in 1..(n - 1) : lastGen.log[i] # "ok"
              /\ lastGen.modelUsed = MODEL_FALLBACK_CHAIN[n]
              /\ parseAndValidateQuestion(lastGen.answer.raw) = Returned(lastGen.question)
    /\ \A c \in CallsInFlight :
          /\ \A i \in DOMAIN c.log : c.log[i] # "ok"
          /\ c.invoked = ChainPrefix(Len(c.log) + 1)

\* The first model failed, the second answered well: its question is
\* returned and the call is over after two invocations.
C5_Witness ==
    /\ lastGen.ok
    /\ Len(lastGen.log) = 2
    /\ lastGen.modelUsed = MODEL_FALLBACK_CHAIN[2]
    /\ lastGen.invoked = ChainPrefix(2)

\* Answers that arrive but do not hold a valid question
C6_Labels == {"A", "B", "C", "D"}

C6_VisualKinds == {"mermaid", "terminal", "none"}

\* What the validation step promises of a question
C6_Validated(q) ==
    /\ q.question_en.t = "string"
    /\ q.explanation_pt.t = "string"
    /\ q.options_en.t = "object" /\ ~q.options_en.null
    /\ q.options_en.A.t = "string" /\ q.options_en.B.t = "string"
    /\ q.options_en.C.t = "string" /\ q.options_en.D.t = "string"
    /\ q.correct_letter.t = "string" /\ q.correct_letter.v \in C6_Labels
    /\ q.visual_context.truthy
    /\ q.visual_context.type.t = "string" /\ q.visual_context.type.v \in C6_VisualKinds
    /\ q.visual_context.content.t = "string"

\* C6 -- No invalid item escapes: every question a generation call returns,
\* every question the route responds with (from the bank or generated on
\* demand) and every question in a queue of the bank passed validation; a
\* request whose on-demand generation exhausted the chain is answered with
\* the failure (502) and no question.
C6_NoInvalidItem ==
    /\ \A key \in DOMAIN bank : \A i \in DOMAIN bank[key] : C6_Validated(bank[key][i].question)
    /\ resp.item # NoItem => C6_Validated(resp.item.question)
    /\ lastGen.ok => C6_Validated(lastGen.question)
    /\ resp.op = "serve" =>
          \/ resp.status = 200 /\ resp.item # NoItem
          \/ resp.status = 502 /\ resp.item = NoItem /\ lastGen.settled /\ ~lastGen.ok
    /\ (lastGen.settled /\ ~lastGen.ok /\ resp # NoResp) => resp.status = 502

\* A question whose visual_context had to be normalised is served from the
\* bank.
C6_Witness ==
    /\ resp.op = "serve"
    /\ resp.from_bank
    /\ resp.item.question.visual_context = Vc(JsString("none"), JsString(""))
    /\ resp.item.question.correct_letter = JsString("D")

C7_Rejected == {A_Garbage, A_JsonNull, A_NoLetter, A_BadLetter, A_NoOptionD, A_OptionsNull}

\* C7 -- Validation rejection: an answer that arrives (no transport error)
\* but fails parsing or validation, such as one without correct_letter, is
\* handled as a failed call is: no question is returned from it and the
\* call goes on to the next model of the chain, or fails if it was the last.
C7_ValidationRejection ==
    (lastGen.answer \in C7_Rejected) =>
        LET n == Len(lastGen.log)
        IN  /\ ~lastGen.ok
            /\ lastGen.question = NoQuestion
            /\ lastGen.log[n] = "validation"
            /\ lastGen.lastError # "null"
            /\ IF n < Len(MODEL_FALLBACK_CHAIN)
               THEN ~lastGen.settled /\ lastGen.invoked = ChainPrefix(n + 1)
               ELSE lastGen.settled /\ lastGen.invoked = MODEL_FALLBACK_CHAIN

\* The primary model answered without correct_letter; the call is now
\* waiting on the second model.
C7_Witness ==
    /\ lastGen.answer = A_NoLetter
    /\ ~lastGen.settled
    /\ lastGen.invoked = ChainPrefix(2)

\* C8 -- Chain exhaustion: a generation call fails if and only if every
\* model of the chain failed (call error or validation error); it then
\* throws one error that carries the message of the last model's failure,
\* and it never fails while a model remains untried.
C8_ChainExhaustion ==
    lastGen # NoGen =>
        LET n == Len(lastGen.log)
            allFailed == n = Len(MODEL_FALLBACK_CHAIN) /\ \A i \in 1..n : lastGen.log[i] # "ok"
        IN  /\ (lastGen.settled /\ ~lastGen.ok) <=> allFailed
            /\ allFailed =>
                  /\ lastGen.invoked = MODEL_FALLBACK_CHAIN
                  /\ lastGen.error =
                        "All models in the fallback chain failed. Last error: "
                            \o Attempt(lastGen.answer).err
            /\ ~allFailed => lastGen.error = ""

\* All four models failed, the last one on validation.
C8_Witness ==
    /\ lastGen.settled
    /\ ~lastGen.ok
    /\ lastGen.log = <<"transport", "validation", "transport", "validation">>
    /\ lastGen.answer = A_BadLetter

\* C9 -- No per-backend retry: within one generation call every model of
\* the chain is invoked at most once; the models invoked are a prefix of
\* MODEL_FALLBACK_CHAIN, so there are at most Len(MODEL_FALLBACK_CHAIN)
\* invocations.
C9_NoRetry ==
    \A c \in CallsInFlight \cup {lastGen} :
        /\ Len(c.invoked) <= Len(MODEL_FALLBACK_CHAIN)
        /\ \A i, j \in DOMAIN c.invoked : c.invoked[i] = c.invoked[j] => i = j
        /\ \A i \in DOMAIN c.invoked : c.invoked[i] = MODEL_FALLBACK_CHAIN[i]

\* A call that went through the whole chain, each model once.
C9_Witness ==
    /\ lastGen.settled
    /\ lastGen.ok
    /\ Len(lastGen.invoked) = Len(MODEL_FALLBACK_CHAIN)

\* C10 -- FIFO pop: a pop (popFromBank called on its own or by the route)
\* returns the oldest question of the key's queue that is still fresh and
\* leaves the fresh ones after it in their order, or returns null when the
\* queue has no fresh question; every queue holds its questions in the
\* order of their creation.
C10_FifoPop ==
    /\ [](\A key \in DOMAIN bank : \A i, j \in DOMAIN bank[key] :
              i < j => bank[key][i].id < bank[key][j].id)
    /\ [][(resp'.op = "pop" \/ (resp'.op = "serve" /\ resp'.from_bank)) =>
              LET fresh == C10_Fresh(bank, resp'.key, now)
              IN  IF fresh = <<>>
                  THEN resp'.item = NoItem /\ bank'[resp'.key] = <<>>
                  ELSE resp'.item = Head(fresh) /\ bank'[resp'.key] = Tail(fresh)]_vars

\* A pop at a time when questions made at the start are stale returned the
\* second question created, made after the first clock advance; a younger
\* one stays in the queue.
C10_Witness ==
    /\ resp.op = "pop"
    /\ resp.item.id = 2
    /\ now = MAX_AGE_MS
    /\ resp.item.generatedAt = HalfAge
    /\ Len(QueueOf(bank, K1Key)) = 1

\* The questions of a sequence whose age at time t is at most `age`
C11_AgedAtMost(queue, t, age) == SelectSeq(queue, LAMBDA q : t - q.generatedAt <= age)

\* C11 -- Staleness: a question whose age (the time of the call minus its
\* generatedAt) is greater than MAX_AGE_MS is not returned by popFromBank,
\* is not counted by bankDepth and is not in the queue after either call,
\* though nothing removed it before; bankDepth counts every younger question
\* of the queue.
C11_Staleness ==
    [][(resp'.op \in {"pop", "depth"}) =>
          LET queue == QueueOf(bank, resp'.key)
          IN  /\ resp'.item # NoItem => now - resp'.item.generatedAt <= MAX_AGE_MS
              /\ resp'.op = "depth" =>
                    /\ resp'.depth <= Len(C11_AgedAtMost(queue, now, MAX_AGE_MS))
                    /\ resp'.depth >= Len(C11_AgedAtMost(queue, now, MAX_AGE_MS - 1))
              /\ \A i \in DOMAIN bank'[resp'.key] :
                    now - bank'[resp'.key][i].generatedAt <= MAX_AGE_MS]_vars

\* bankDepth has just counted one question, and the array it replaced (a
\* refill closure still holds it) has a second one that is older than
\* MAX_AGE_MS.
C11_Witness ==
    /\ resp.op = "depth"
    /\ resp.depth = 1
    /\ Len(QueueOf(bank, K1Key)) = 1
    /\ \E i \in DOMAIN tasks[K1Key] :
          /\ ~tasks[K1Key][i].live
          /\ Len(tasks[K1Key][i].q) = 2
          /\ now - tasks[K1Key][i].q[1].generatedAt > MAX_AGE_MS

\* What the refill closures of a key are doing: the generation call each is
\* suspended in and its counters
C12_Rounds(ts, key) ==
    [i \in DOMAIN ts[key] |->
        [call |-> ts[key][i].call, needed |-> ts[key][i].needed,
         generated |-> ts[key][i].generated]]

\* C12 -- popFromBank is non-blocking and generator-free: a call makes no
\* generation call and advances none, starts no refill, leaves the
\* in-flight set as it was and creates no question; it can run in every
\* state, and so also while a refill of its key is in progress.
C12_PopFrame ==
    /\ [][resp'.op = "pop" =>
              /\ refilling' = refilling
              /\ \A key \in DOMAIN tasks : C12_Rounds(tasks', key) = C12_Rounds(tasks, key)
              /\ reqs' = reqs
              /\ nextId' = nextId
              /\ lastGen' = NoGen]_vars
    /\ [](\A pk \in env.keys : ENABLED PopFromBank(pk))

\* popFromBank has just returned a question while a refill of its key is
\* suspended in a generation call.
C12_Witness ==
    /\ resp.op = "pop"
    /\ resp.item # NoItem
    /\ resp.key \in refilling
    /\ Len(tasks[resp.key]) = 1

\* C13 -- Admission of triggerRefillIfNeeded: a call for a key whose queue
\* holds MIN_BANK fresh questions or more, or whose refill is in progress,
\* starts no refill, calls neither buildPrompts nor a backend and leaves the
\* in-flight set as it was; any other call calls buildPrompts once and
\* starts exactly one refill, of MIN_BANK minus the depth questions, with
\* the key in the in-flight set (a refill whose buildPrompts throws is over,
\* and the key out of the set, when the call returns).
C13_Admission ==
    [][resp'.op = "trigger" =>
          LET key == resp'.key
              depth == Len(C10_Fresh(bank, key, now))
          IN  /\ nextId' = nextId
              /\ lastGen' = NoGen
              /\ reqs' = reqs
              /\ IF depth >= MIN_BANK \/ key \in refilling
                 THEN /\ refilling' = refilling
                      /\ C12_Rounds(tasks', key) = C12_Rounds(tasks, key)
                      /\ resp'.built = 0
                 ELSE /\ resp'.built = 1
                      /\ tasks[key] = <<>>
                      /\ \/ /\ refilling' = refilling \cup {key}
                            /\ C12_Rounds(tasks', key) =
                                  <<[call |-> StartCall, needed |-> MIN_BANK - depth,
                                     generated |-> 0]>>
                         \/ /\ refilling' = refilling
                            /\ tasks'[key] = <<>>]_vars

\* triggerRefillIfNeeded has just returned without starting a refill for a
\* key that has none in progress: its queue holds MIN_BANK fresh questions.
C13_Witness ==
    /\ resp.op = "trigger"
    /\ resp.built = 0
    /\ refilling = {}
    /\ Len(QueueOf(bank, resp.key)) = MIN_BANK
    /\ \A i \in DOMAIN bank[resp.key] : IsFresh(bank[resp.key][i], now)

\* A step in which a backend answered a refill closure's generation call
C14_RefillStep == lastGen' # NoGen /\ reqs' = reqs

\* C14 -- Stopping rule of a refill round: a round started at depth d is to
\* generate needed = MIN_BANK - d questions; it has one generation call in
\* progress at a time and has started at most `needed` of them; after a call
\* that returned a question it goes on only if fewer than `needed` were
\* generated and the queue is below MAX_BANK; after a call that failed it
\* makes no further call and ends, adding nothing.
C14_StoppingRule ==
    /\ [](\A key \in DOMAIN tasks :
              /\ Len(tasks[key]) <= 1
              /\ \A i \in DOMAIN tasks[key] :
                    /\ tasks[key][i].needed <= MIN_BANK
                    /\ tasks[key][i].generated + 1 <= tasks[key][i].needed)
    /\ [][\A key \in DOMAIN tasks :
              (tasks[key] = <<>> /\ tasks'[key] # <<>>) =>
                  C12_Rounds(tasks', key) =
                      <<[call |-> StartCall, needed |-> MIN_BANK - Len(bank'[key]),
                         generated |-> 0]>>]_vars
    /\ [][C14_RefillStep =>
              \E key \in DOMAIN tasks :
                  /\ Len(tasks[key]) = 1
                  /\ LET task == tasks[key][1]
                         over == tasks'[key] = <<>> /\ key \notin refilling'
                         next(g, call) ==
                             C12_Rounds(tasks', key) =
                                 <<[call |-> call, needed |-> task.needed, generated |-> g]>>
                     IN  IF ~lastGen'.settled
                         THEN /\ next(task.generated, tasks'[key][1].call)
                              /\ Len(tasks'[key][1].call.invoked) = Len(task.call.invoked) + 1
                              /\ bank' = bank
                         ELSE IF ~lastGen'.ok
                         THEN over /\ bank' = bank
                         ELSE IF task.generated + 1 < task.needed
                                    /\ Len(QueueOf(bank', key)) < MAX_BANK
                         THEN next(task.generated + 1, StartCall)
                         ELSE over]_vars

\* A round has just ended because it generated the questions it needed,
\* with the queue below MIN_BANK as questions were popped meanwhile.
C14_Witness ==
    /\ lastGen.settled
    /\ lastGen.ok
    /\ resp = NoResp
    /\ tasks[K1Key] = <<>>
    /\ refilling = {}
    /\ nextId = MIN_BANK + 1
    /\ Len(QueueOf(bank, K1Key)) \in 1..(MIN_BANK - 1)

\* C15 -- No lost refill question: every question a refill round generates
\* is appended to its key's queue when the generation call returns (and so
\* is there for later popFromBank and bankDepth calls), also when
\* popFromBank, bankDepth or triggerRefillIfNeeded pruned the queue while
\* the call was in progress.
C15_NoLostItem ==
    [][(C14_RefillStep /\ lastGen'.settled /\ lastGen'.ok) =>
          \E key \in DOMAIN tasks :
              /\ Len(tasks[key]) = 1
              /\ QueueOf(bank', key) =
                    Append(QueueOf(bank, key),
                           BankQuestion(nextId, lastGen'.question, lastGen'.modelUsed, now))]_vars

\* C16 -- Hit and miss of the route: a request responds with from_bank =
\* true exactly when its popFromBank returned a question, and it then
\* responds with that question in the step it arrived in, without a
\* generation call of its own; a request whose pop returned null suspends in
\* one generation call and responds when that call settles, on success with
\* the call's question and model and from_bank = false.
C16_ServeHitMiss ==
    /\ [][(resp'.op = "serve" /\ resp'.from_bank) =>
              LET fresh == C10_Fresh(bank, resp'.key, now)
              IN  /\ fresh # <<>>
                  /\ resp'.item = Head(fresh)
                  /\ resp'.status = 200
                  /\ reqs' = reqs
                  /\ nextId' = nextId
                  /\ lastGen' = NoGen]_vars
    /\ [][BagCardinality(reqs') > BagCardinality(reqs) =>
              \E pk \in env.keys :
                  /\ reqs' = reqs (+) SetToBag({Request("bank", pk)})
                  /\ C10_Fresh(bank, KeyOf(pk), now) = <<>>
                  /\ resp' = NoResp
                  /\ lastGen' = NoGen]_vars
    /\ [][(resp'.op = "serve" /\ ~resp'.from_bank) =>
              /\ \E r \in BagToSet(reqs) :
                    /\ reqs' = reqs (-) SetToBag({r})
                    /\ KeyOf(r.pk) = resp'.key
                    /\ lastGen'.invoked = r.call.invoked
              /\ lastGen'.settled
              /\ lastGen'.invoked = ChainPrefix(Len(lastGen'.log))
              /\ resp'.status = 200 <=> lastGen'.ok
              /\ lastGen'.ok =>
                    resp'.item = BankQuestion(nextId, lastGen'.question,
                                              lastGen'.modelUsed, now)]_vars

\* A request whose pop returned null has just responded with the question
\* its own generation call returned, while the key's queue holds a question
\* that a refill added meanwhile.
C16_Witness ==
    /\ resp.op = "serve"
    /\ ~resp.from_bank
    /\ resp.status = 200
    /\ resp.item.question = lastGen.question
    /\ Len(QueueOf(bank, resp.key)) >= 1

\* C17 -- A failed request leaves the bank alone: a request whose pop
\* returned null and whose generation call exhausted the chain responds
\* with the error (502, no question); neither its arrival nor its response
\* adds a question to a queue, removes a fresh one, adds a key to the
\* in-flight set or starts a refill.
C17_ServeFailure ==
    /\ [][(resp'.op = "serve" /\ resp'.status # 200) =>
              /\ resp'.status = 502
              /\ resp'.item = NoItem
              /\ lastGen'.settled /\ ~lastGen'.ok
              /\ lastGen'.error = AllFailed(lastGen'.lastError)
              /\ bank' = bank
              /\ refilling' = refilling
              /\ tasks' = tasks
              /\ nextId' = nextId
              /\ resp'.built = 0]_vars
    /\ [][BagCardinality(reqs') > BagCardinality(reqs) =>
              /\ \A key \in DOMAIN bank' :
                    C10_Fresh(bank', key, now) = C10_Fresh(bank, key, now)
              /\ refilling' = refilling
              /\ \A key \in DOMAIN tasks : C12_Rounds(tasks', key) = C12_Rounds(tasks, key)
              /\ nextId' = nextId]_vars

\* A request has just responded with the error while the key's queue is
\* short of MIN_BANK and not empty, and no refill of the key is in progress.
C17_Witness ==
    /\ resp.op = "serve"
    /\ resp.status = 502
    /\ resp.key \notin refilling
    /\ tasks[resp.key] = <<>>
    /\ Len(QueueOf(bank, resp.key)) \in 1..(MIN_BANK - 1)

\* The fresh questions left to a key by the pop of a request that responds
\* with `item` from the bank, or by the pruning of one that does not
C18_DepthLeft(fresh, fromBank) == IF fromBank THEN Len(fresh) - 1 ELSE Len(fresh)

\* C18 -- The route always refills: a request that responds with a
\* question, from the bank or generated, has called triggerRefillIfNeeded
\* for its key before it responds: if the key then had fewer than MIN_BANK
\* fresh questions and no refill in progress, the request started one (one
\* buildPrompts call, the key in the in-flight set), and otherwise it
\* started none; so when such a response is made, the key has MIN_BANK fresh
\* questions or a refill of it is in progress.
C18_ServeTopsUp ==
    /\ []((resp.op = "serve" /\ resp.status = 200) =>
              \/ Len(C10_Fresh(bank, resp.key, now)) >= MIN_BANK
              \/ resp.key \in refilling /\ Len(tasks[resp.key]) = 1)
    /\ [][(resp'.op = "serve" /\ resp'.status = 200) =>
              LET key == resp'.key
                  depth == C18_DepthLeft(C10_Fresh(bank, key, now), resp'.from_bank)
              IN  IF depth < MIN_BANK /\ key \notin refilling
                  THEN /\ resp'.built = 1
                       /\ refilling' = refilling \cup {key}
                       /\ C12_Rounds(tasks', key) =
                             <<[call |-> StartCall, needed |-> MIN_BANK - depth,
                                generated |-> 0]>>
                  ELSE /\ resp'.built = 0
                       /\ refilling' = refilling
                       /\ C12_Rounds(tasks', key) = C12_Rounds(tasks, key)]_vars

\* A request has just responded with a question from the bank and started
\* the refill of its key, which is suspended in its first generation call.
C18_Witness ==
    /\ resp.op = "serve"
    /\ resp.from_bank
    /\ resp.built = 1
    /\ resp.key \in refilling
    /\ C12_Rounds(tasks, resp.key) =
          <<[call |-> StartCall,
             needed |-> MIN_BANK - Len(QueueOf(bank, resp.key)), generated |-> 0]>>

\* C19 -- Priming of a new key: with backends that always answer well, the
\* first request for a key with an empty queue responds with a generated
\* question (from_bank = false) and starts a refill of MIN_BANK questions;
\* when that refill has ended and nothing was popped meanwhile, the queue
\* holds MIN_BANK questions; a request that then arrives, the questions
\* being fresh, responds at once with the oldest of them (from_bank =
\* true), leaves MIN_BANK - 1 and starts a new refill.
C19_Priming ==
    /\ [][(resp'.op = "serve" /\ nextId = 1) =>
              /\ ~resp'.from_bank
              /\ resp'.status = 200
              /\ resp'.item.id = 1
              /\ bank'[resp'.key] = <<>>
              /\ refilling' = {resp'.key}
              /\ C12_Rounds(tasks', resp'.key) =
                    <<[call |-> StartCall, needed |-> MIN_BANK, generated |-> 0]>>]_vars
    /\ [](\A key \in DOMAIN bank :
              (key \notin refilling /\ nextId >= 2 /\ Len(bank[key]) = nextId - 2) =>
                  /\ Len(bank[key]) = MIN_BANK
                  /\ \A i \in DOMAIN bank[key] : bank[key][i].id = i + 1)
    /\ [][\A pk \in env.keys :
              (/\ Len(C10_Fresh(bank, KeyOf(pk), now)) = MIN_BANK
               /\ KeyOf(pk) \notin refilling) =>
                  reqs' # reqs (+) SetToBag({Request("bank", pk)})]_vars
    /\ [][\A key \in DOMAIN bank :
              (/\ resp'.op = "serve"
               /\ resp'.key = key
               /\ reqs' = reqs
               /\ Len(C10_Fresh(bank, key, now)) = MIN_BANK
               /\ key \notin refilling) =>
                  /\ resp'.from_bank
                  /\ resp'.status = 200
                  /\ resp'.item = Head(bank[key])
                  /\ bank'[key] = Tail(bank[key])
                  /\ Len(bank'[key]) = MIN_BANK - 1
                  /\ refilling' = refilling \cup {key}
                  /\ C12_Rounds(tasks', key) =
                        <<[call |-> StartCall, needed |-> 1, generated |-> 0]>>]_vars

\* The second request has just been answered from the bank with the first
\* question of the refill that the first request started; MIN_BANK - 1
\* questions are left and a refill of one question is in progress.
C19_Witness ==
    /\ resp.op = "serve"
    /\ resp.from_bank
    /\ resp.item.id = 2
    /\ nextId = MIN_BANK + 2
    /\ Len(QueueOf(bank, resp.key)) = MIN_BANK - 1
    /\ resp.key \in refilling
    /\ C12_Rounds(tasks, resp.key) = <<[call |-> StartCall, needed |-> 1, generated |-> 0]>>

\* C20 -- Self-healing convergence: with backends that always answer well
\* and no question going stale, once the requests for a key have stopped
\* and every generation call has returned (no request is suspended and no
\* refill of the key is in progress; from then on nothing changes the
\* queue), the key's queue holds MIN_BANK questions, whatever requests came
\* before, those that popped during a refill included.
C20_Convergence ==
    \A key \in DOMAIN bank :
        (/\ nextId >= 2
         /\ reqs = EmptyBag
         /\ key \notin refilling
         /\ tasks[key] = <<>>) =>
            Len(C10_Fresh(bank, key, now)) = MIN_BANK

\* What holds of the prompt factory in every step: a step that starts a
\* refill round calls it once, a step that starts none (a refused
\* triggerRefillIfNeeded, an answer to a round in progress, popFromBank,
\* bankDepth) does not call it, and it is called only by an admitted
\* triggerRefillIfNeeded.
C21_OncePerRound ==
    /\ resp'.built \in {0, 1}
    /\ \A key \in DOMAIN tasks :
          (tasks[key] = <<>> /\ tasks'[key] # <<>>) => (resp'.built = 1 /\ resp'.key = key)
    /\ resp'.built = 1 =>
          /\ resp'.op \in {"trigger", "serve"}
          /\ resp'.key \notin refilling
          /\ Len(C10_Fresh(bank, resp'.key, now)) - (IF resp'.from_bank THEN 1 ELSE 0) < MIN_BANK
    /\ C14_RefillStep => resp'.built = 0

\* C21 (as stated) -- Lazy prompt factory: the factory given to
\* triggerRefillIfNeeded is called at most once per refill round started and
\* never when none is started; a request answered from the bank never calls
\* it.
C21_FactoryNeverOnHit ==
    [][/\ C21_OncePerRound
       /\ (resp'.op = "serve" /\ resp'.from_bank) => resp'.built = 0]_vars

\* C21 (amended) -- Lazy prompt factory: the factory given to
\* triggerRefillIfNeeded is called once per refill round started and never
\* when none is started; a request answered from the bank calls it once if
\* no refill of its key is in progress (its pop left fewer than MIN_BANK
\* questions, so it starts a round), and not at all otherwise.
C21_LazyFactory ==
    [][/\ C21_OncePerRound
       /\ (resp'.op = "serve" /\ resp'.from_bank) =>
             (resp'.built = IF resp'.key \in refilling THEN 0 ELSE 1)]_vars

\* A request has just been answered from the bank without a call of the
\* factory, as a refill of its key is in progress.
C21_Witness ==
    /\ resp.op = "serve"
    /\ resp.from_bank
    /\ resp.built = 0
    /\ resp.key \in refilling
    /\ Len(tasks[resp.key]) = 1

\* C22 -- Per-key isolation: while a refill round of one key is in flight,
\* triggerRefillIfNeeded for another key that is not in flight and holds
\* fewer than MIN_BANK fresh questions starts a round for it, alone or in
\* the loop of warmBankForExam; popFromBank is possible on every key and
\* returns what it would return with no round in flight; and a step of a
\* refill closure changes the queue, the closures and the in-flight mark of
\* its own key only.
C22_KeyIsolation ==
    [][/\ \A pk \in env.keys : ENABLED PopFromBank(pk)
       /\ resp'.op = "pop" =>
             resp'.item = popFromBank([M EXCEPT !.refilling = {}], resp'.key, now).item
       /\ \A key \in DOMAIN tasks :
             ( /\ resp'.op = "warm" \/ (resp'.op = "trigger" /\ resp'.key = key)
               /\ key \notin refilling
               /\ Len(C10_Fresh(bank, key, now)) < MIN_BANK )
             => (key \in refilling' /\ Len(tasks'[key]) = 1)
       /\ C14_RefillStep =>
             \E key \in DOMAIN tasks :
                \A other \in DOMAIN tasks \ {key} :
                   /\ QueueOf(bank', other) = QueueOf(bank, other)
                   /\ tasks'[other] = tasks[other]
                   /\ (other \in refilling') = (other \in refilling)]_vars

C22_Witness ==
    /\ resp.op = "trigger"
    /\ resp.key = KeyOf(K2)
    /\ resp.built = 1
    /\ {K1Key, KeyOf(K2)} \subseteq refilling
    /\ Len(QueueOf(bank, K1Key)) = 1
    /\ Len(tasks[K1Key]) = 1

\* C23 -- Administrative read: the body of a successful GET /api/bank-status
\* holds, for every key the bank has been asked about, the number bankDepth
\* would return for it at that moment, which leaves out the questions that
\* have reached the maximum age.
C23_AdministrativeRead ==
    (resp.op = "stats" /\ resp.status = 200) =>
        /\ DOMAIN resp.stats = DOMAIN bank
        /\ \A key \in DOMAIN bank : resp.stats[key] = bankDepth(M, key, now).depth

\* C24 -- Default normalization: of every answer that passes the other
\* checks, the question returned has visual_context {type: "none",
\* content: ""} if the answer's visual_context is absent or its type is not
\* one of mermaid, terminal, none; otherwise it has the answer's type, and
\* the answer's content if that is a string, else the empty string.
C24_DefaultNormalization ==
    lastGen.ok =>
        LET given == lastGen.answer.raw.q.visual_context
            got == lastGen.question.visual_context
        IN  IF ~given.truthy \/ given.type \notin {JsString(kind) : kind \in C6_VisualKinds}
            THEN got = Vc(JsString("none"), JsString(""))
            ELSE /\ got.truthy
                 /\ got.type = given.type
                 /\ got.content = IF given.content.t = "string" THEN given.content
                                  ELSE JsString("")

\* A terminal visual_context whose content is a number comes back with the
\* empty string.
C24_Witness ==
    /\ lastGen.ok
    /\ lastGen.answer = A_ValidNumContent
    /\ lastGen.question.visual_context = Vc(JsString("terminal"), JsString(""))

\* C25 -- No automatic retry of a failed round: the step in which a refill
\* closure's generation call fails ends the round (the closure is gone, the
\* key is out of the in-flight set), answers no request, settles none of
\* the suspended ones and leaves every queue as it was, so the questions
\* the round pushed stay; and a key without a refill closure gets one only
\* in a step of triggerRefillIfNeeded for that key that found it out of the
\* in-flight set with fewer than MIN_BANK fresh questions.
C25_NoAutomaticRetry ==
    [][/\ (C14_RefillStep /\ lastGen'.settled /\ ~lastGen'.ok) =>
             /\ \E key \in DOMAIN tasks :
                   /\ tasks[key] # <<>>
                   /\ tasks' = [tasks EXCEPT ![key] = <<>>]
                   /\ refilling' = refilling \ {key}
             /\ bank' = bank
             /\ resp' = NoResp
             /\ reqs' = reqs
       /\ \A key \in DOMAIN tasks :
             (tasks[key] = <<>> /\ tasks'[key] # <<>>) =>
                 /\ resp'.op \in {"trigger", "serve"}
                 /\ resp'.key = key
                 /\ ~C14_RefillStep
                 /\ key \notin refilling
                 /\ Len(C10_Fresh(bank, key, now)) - (IF resp'.from_bank THEN 1 ELSE 0)
                        < MIN_BANK]_vars

\* A round has just ended on a failed generation call after it pushed a
\* question, which is still in the queue.
C25_Witness ==
    /\ lastGen.settled
    /\ ~lastGen.ok
    /\ resp = NoResp
    /\ tasks[K1Key] = <<>>
    /\ K1Key \notin refilling
    /\ Len(QueueOf(bank, K1Key)) >= 1
    /\ nextId = Len(QueueOf(bank, K1Key)) + 1

RECURSIVE C26_IsSubSeq(_, _)
\* Is `a` what is left of `b` after removing some of its members?
C26_IsSubSeq(a, b) ==
    IF a = <<>> THEN TRUE
    ELSE IF b = <<>> THEN FALSE
    ELSE IF Head(a) = Head(b) THEN C26_IsSubSeq(Tail(a), Tail(b))
    ELSE C26_IsSubSeq(a, Tail(b))

\* C26 -- Pruning is idempotent and removal-only: in every state and for
\* every key, pruneStale at the current instant leaves a queue that is the
\* old one without some of its members, in the old order, and with every
\* member that has not reached the maximum age; it leaves the in-flight set
\* and every other key's queue as they are; and pruning again at the same
\* instant changes nothing.
C26_PruningRemovalOnly ==
    \A key \in DOMAIN tasks :
        LET once == pruneStale(M, key, now)
            twice == pruneStale(once, key, now)
            before == QueueOf(bank, key)
        IN  /\ twice = once
            /\ C26_IsSubSeq(once.bank[key], before)
            /\ \A i \in DOMAIN before :
                  (now - before[i].generatedAt < MAX_AGE_MS) =>
                      \E j \in DOMAIN once.bank[key] : once.bank[key][j] = before[i]
            /\ once.refilling = refilling
            /\ \A other \in DOMAIN tasks \ {key} :
                  QueueOf(once.bank, other) = QueueOf(bank, other)

\* A queue with a question at the maximum age before a fresh one, while a
\* refill round of the key is in flight and the other key's is too:
\* pruning removes the first and keeps the second.
C26_Witness ==
    /\ Len(QueueOf(bank, K1Key)) = 2
    /\ Len(pruneStale(M, K1Key, now).bank[K1Key]) = 1
    /\ pruneStale(M, K1Key, now).bank[K1Key][1] = bank[K1Key][2]
    /\ refilling = {K1Key, KeyOf(K2)}

C28_LowWaterBound ==
    /\ [](\A key \in DOMAIN bank : Len(bank[key]) <= MIN_BANK)
    /\ [][(C14_RefillStep /\ lastGen'.settled /\ lastGen'.ok) =>
              \A key \in DOMAIN tasks :
                  (tasks[key] # <<>> /\ tasks'[key] = <<>>) =>
                      /\ tasks[key][1].generated + 1 = tasks[key][1].needed
                      /\ Len(QueueOf(bank', key)) < MAX_BANK]_vars

\* A round started on a queue of one question has just ended after its
\* ninth, and the queue holds MIN_BANK questions.
C28_Witness ==
    /\ lastGen.settled
    /\ lastGen.ok
    /\ tasks[K1Key] = <<>>
    /\ refilling = {}
    /\ Len(QueueOf(bank, K1Key)) = MIN_BANK
    /\ nextId > MIN_BANK + 1

\* The questions in the queues of b, by the order of their creation
C29_Ids(b) == {b[key][i].id : <<key, i>> \in UNION {{key} \X DOMAIN b[key] : key \in DOMAIN b}}

\* C29 -- At-most-once delivery: no question is in two places of the
\* queues, and every question there was created before the current step;
\* a question that popFromBank or the route returns is in no queue
\* afterwards; one returned from the bank was in a queue before; one
\* generated on a miss is new and enters no queue; and a step puts into
\* the queues at most the one question it creates.  A question returned
\* once is therefore never returned again.
C29_AtMostOnceDelivery ==
    /\ [](\A key \in DOMAIN bank : \A other \in DOMAIN bank :
              \A i \in DOMAIN bank[key] : \A j \in DOMAIN bank[other] :
                  /\ bank[key][i].id < nextId
                  /\ bank[key][i].id = bank[other][j].id => (key = other /\ i = j))
    /\ [][/\ nextId' \in {nextId, nextId + 1}
           /\ C29_Ids(bank') \ C29_Ids(bank) \subseteq {nextId}
           /\ resp'.item # NoItem =>
                 /\ resp'.item.id \notin C29_Ids(bank')
                 /\ IF resp'.from_bank
                    THEN resp'.item.id \in C29_Ids(bank) /\ nextId' = nextId
                    ELSE resp'.item.id = nextId /\ nextId' = nextId + 1]_vars

\* The route answers from the bank with the second question created, while
\* the third waits in the queue.
C29_Witness ==
    /\ resp.op = "serve"
    /\ resp.from_bank
    /\ resp.item.id = 2
    /\ Len(QueueOf(bank, K1Key)) = 1
    /\ bank[K1Key][1].id = 3

\* C30 -- Exam timer single countdown: whatever the calls of start, pause,
\* resume and reset, the window holds at most one interval of the hook, the
\* seconds left are within 0..TOTAL, onExpire is called at most once after
\* a start, and a second is counted only while the timer is running and not
\* paused.
C30_SingleCountdown ==
    /\ [](/\ Cardinality(timer.active) <= 1
          /\ timer.secondsLeft \in 0..TOTAL
          /\ timer.expiries <= 1)
    /\ [][timer'.secondsRef = timer.secondsRef - 1 =>
              (timer.state = "running" /\ ~timer.paused)]_vars

====
